---- MODULE Spec2Model ----
(***************************************************************************)
(* Model of src/app.py (Smart DCF Modeler, a Streamlit page).              *)
(*                                                                         *)
(* Three specifications share the module's variables:                      *)
(*   Spec     the Streamlit session: ticker text input, Analyze button,    *)
(*            session_state, the scenario widgets and the page header;     *)
(*   SpecDcf  calculate_dcf applied to bounded inputs;                     *)
(*   SpecOut  the output block of the page (valuation targets,             *)
(*            risk/reward ratio and its classification) applied to         *)
(*            bounded scenario values and prices.                          *)
(*                                                                         *)
(* Python floats are modelled as exact rationals <<n, d>> (d > 0, lowest   *)
(* terms); rounding of IEEE-754 doubles is not modelled.                   *)
(***************************************************************************)
EXTENDS Integers, Sequences, FiniteSets, TLC

VARIABLES
    dcf_args,   \* SpecDcf: the arguments of the calculate_dcf call
    dcf_out,    \* SpecDcf: what the call produced, NoCall before it
    out_args,   \* SpecOut: bear_p, base_p, bull_p and data['price']
    out_page,   \* SpecOut: what the output block rendered, NoCall before it
    ticker_input,       \* Spec: the text of the "Ticker Symbol" input
    session,            \* Spec: st.session_state's 'data' and 'defaults'
    widgets,            \* Spec: values of the six keyed number inputs
    term_slider,        \* Spec: value of the terminal growth slider
    fcf_input,          \* Spec: value of the "Free Cash Flow Input"
    page,               \* Spec: what the last script run rendered
    fetched_ticker,     \* Spec (history): ticker whose fetch filled 'data'
    value_in_identity   \* Spec: whether this Streamlit build re-creates a
                        \* keyed widget when its `value` argument changes

dcfVars == <<dcf_args, dcf_out>>
outVars == <<out_args, out_page>>
uiVars == <<ticker_input, session, widgets, term_slider, fcf_input, page,
            fetched_ticker, value_in_identity>>
vars == <<dcfVars, outVars, uiVars>>

\* the value of a variable its specification has not used yet
NoCall == [called |-> FALSE]

\* None where a dict or a record is expected
None == [none |-> TRUE]

\* None where a string is expected; like the empty string it is falsy
NoString == <<>>

\* an optional value: absent, or Some(v)
Missing == <<>>
Some(v) == <<v>>

----------------------------------------------------------------------------
(* Exact rational arithmetic standing for Python's float operators.        *)

Abs(x) == IF x < 0 THEN -x ELSE x

RECURSIVE GCD(_, _)
GCD(a, b) == IF b = 0 THEN a ELSE GCD(b, a % b)

\* the rational n/d in lowest terms with a positive denominator (d # 0)
Norm(n, d) ==
    LET g == GCD(Abs(n), Abs(d))
        s == IF d < 0 THEN -1 ELSE 1
    IN  <<(s * n) \div g, (s * d) \div g>>

R(i) == <<i, 1>>

LCM(a, b) == (a \div GCD(a, b)) * b

RAdd(x, y) ==
    LET l == LCM(x[2], y[2])
    IN  Norm(x[1] * (l \div x[2]) + y[1] * (l \div y[2]), l)

RNeg(x) == <<-x[1], x[2]>>

RSub(x, y) == RAdd(x, RNeg(y))

RMul(x, y) ==
    LET a == Norm(x[1], y[2])
        b == Norm(y[1], x[2])
    IN  <<a[1] * b[1], a[2] * b[2]>>

\* x / y for y # 0 (Python raises ZeroDivisionError for y = 0; the callers
\* below test for it before dividing)
RDiv(x, y) == RMul(x, Norm(y[2], y[1]))

RLt(x, y) ==
    LET l == LCM(x[2], y[2])
    IN  x[1] * (l \div x[2]) < y[1] * (l \div y[2])

RLe(x, y) == x = y \/ RLt(x, y)

RECURSIVE RPow(_, _)
RPow(x, k) == IF k = 0 THEN R(1) ELSE RMul(x, RPow(x, k - 1))

RECURSIVE RSum(_)
RSum(s) == IF s = <<>> THEN R(0) ELSE RAdd(Head(s), RSum(Tail(s)))

----------------------------------------------------------------------------
(* Strings are sequences of one-character strings, so that str.lower(),    *)
(* str.upper() and the substring test `in` are computed.                   *)

UpperCase == <<"A", "B", "C", "D", "E", "F", "G", "H", "I", "J", "K", "L", "M", "N", "O", "P", "Q", "R", "S", "T", "U", "V", "W", "X", "Y", "Z">>
LowerCase == <<"a", "b", "c", "d", "e", "f", "g", "h", "i", "j", "k", "l", "m", "n", "o", "p", "q", "r", "s", "t", "u", "v", "w", "x", "y", "z">>

IndexIn(ch, alphabet) ==
    IF \E i \in 1..Len(alphabet) : alphabet[i] = ch
    THEN CHOOSE i \in 1..Len(alphabet) : alphabet[i] = ch
    ELSE 0

\* str.lower()
Lower(str) ==
    [i \in 1..Len(str) |->
        IF IndexIn(str[i], UpperCase) = 0 THEN str[i]
        ELSE LowerCase[IndexIn(str[i], UpperCase)]]

\* str.upper()
Upper(str) ==
    [i \in 1..Len(str) |->
        IF IndexIn(str[i], LowerCase) = 0 THEN str[i]
        ELSE UpperCase[IndexIn(str[i], LowerCase)]]

\* sub in str
Contains(sub, str) ==
    \E i \in 0..(Len(str) - Len(sub)) : SubSeq(str, i + 1, i + Len(sub)) = sub


----------------------------------------------------------------------------
(* get_industry_defaults, src/app.py:10-53.  Percentages are held in       *)
(* hundredths of a percent: 7.5 is 750.                                    *)

Presets(bear_g, base_g, bull_g, bear_w, base_w, bull_w) ==
    [bear_g |-> bear_g, base_g |-> base_g, bull_g |-> bull_g,
     bear_w |-> bear_w, base_w |-> base_w, bull_w |-> bull_w]

get_industry_defaults(sector) ==
    LET defaults == Presets(500, 1000, 1500, 1000, 900, 800)
    IN  IF sector = NoString THEN defaults
        ELSE
        LET lowered == Lower(sector)
        IN  IF Contains(<<"t", "e", "c", "h", "n", "o", "l", "o", "g", "y">>, lowered)
            THEN Presets(800, 1400, 2000, 1100, 1000, 900)
            ELSE IF Contains(<<"u", "t", "i", "l", "i", "t", "i", "e", "s">>, lowered) \/ Contains(<<"e", "n", "e", "r", "g", "y">>, lowered)
            THEN Presets(100, 300, 500, 700, 600, 500)
            ELSE IF Contains(<<"h", "e", "a", "l", "t", "h", "c", "a", "r", "e">>, lowered)
            THEN Presets(400, 800, 1200, 900, 800, 700)
            ELSE IF Contains(<<"c", "o", "n", "s", "u", "m", "e", "r", " ", "d", "e", "f", "e", "n", "s", "i", "v", "e">>, lowered)
            THEN Presets(200, 500, 700, 750, 650, 600)
            ELSE IF Contains(<<"f", "i", "n", "a", "n", "c", "i", "a", "l">>, lowered) \/ Contains(<<"r", "e", "a", "l", " ", "e", "s", "t", "a", "t", "e">>, lowered)
            THEN Presets(300, 600, 900, 1000, 850, 750)
            ELSE defaults

----------------------------------------------------------------------------
(* get_company_data, src/app.py:56-114.  A response is what yfinance gives *)
(* for a ticker: the info dict, the balance sheet and the cash flow        *)
(* statement, or an exception.  A key or row that is absent is Missing.    *)
(* Of the returned record the fields peg_ratio, image, description and     *)
(* beta, which are only displayed, are left out.                           *)

Alert(level, text) == [level |-> level, text |-> text]

\* dict.get(key, default)
Get(value, default) == IF value = Missing THEN default ELSE value[1]

get_company_data(ticker, resp) ==
    IF resp.raises
    THEN [data |-> None, alert |-> Alert("error", "Error fetching data")]
    ELSE IF resp.info.currentPrice = Missing
    THEN [data |-> None, alert |-> Alert("error", "Could not fetch data")]
    ELSE IF resp.bs.empty \/ resp.cf.empty
    THEN [data |-> None,
          alert |-> Alert("warning", "Financial statements not found")]
    ELSE
    LET total_debt == Get(resp.bs.total_debt, 0)
        cash == Get(resp.bs.cash, 0)
        fcf == IF resp.cf.ocf # Missing /\ resp.cf.capex # Missing
               THEN resp.cf.ocf[1] + resp.cf.capex[1]
               ELSE Get(resp.cf.free_cash_flow, 0)
    IN  [data |-> [price |-> Get(resp.info.currentPrice, 0),
                   name |-> Get(resp.info.longName, ticker),
                   sector |-> Get(resp.info.sector, <<"U", "n", "k", "n", "o", "w", "n">>),
                   shares_out |-> Get(resp.info.sharesOutstanding, 0),
                   net_debt |-> total_debt - cash,
                   fcf |-> fcf],
         alert |-> None]

----------------------------------------------------------------------------
(* The data provider: the responses a ticker can get.                      *)

Response(raises, info, bs, cf) ==
    [raises |-> raises, info |-> info, bs |-> bs, cf |-> cf]

Info(currentPrice, sharesOutstanding, longName, sector) ==
    [currentPrice |-> currentPrice, sharesOutstanding |-> sharesOutstanding,
     longName |-> longName, sector |-> sector]

BalanceSheet(empty, total_debt, cash) ==
    [empty |-> empty, total_debt |-> total_debt, cash |-> cash]

CashFlow(empty, ocf, capex, free_cash_flow) ==
    [empty |-> empty, ocf |-> ocf, capex |-> capex,
     free_cash_flow |-> free_cash_flow]

NVDA == <<"N", "V", "D", "A">>
DUK == <<"D", "U", "K">>
XYZ == <<"X", "Y", "Z">>

\* the listing of a ticker: a technology company with net cash, a utility
\* with net debt, and a listing with a zero price and most keys absent
Listing(ticker) ==
    IF ticker = NVDA
    THEN Response(FALSE, Info(Some(100), Some(1000), Some(<<"N", "V", "I", "D", "I", "A", " ", "C", "o", "r", "p", "o", "r", "a", "t", "i", "o", "n">>), Some(<<"T", "e", "c", "h", "n", "o", "l", "o", "g", "y">>)),
                  BalanceSheet(FALSE, Some(50), Some(100)),
                  CashFlow(FALSE, Some(150), Some(-50), Some(100)))
    ELSE IF ticker = DUK
    THEN Response(FALSE, Info(Some(90), Some(500), Some(<<"D", "u", "k", "e", " ", "E", "n", "e", "r", "g", "y", " ", "C", "o", "r", "p", "o", "r", "a", "t", "i", "o", "n">>), Some(<<"U", "t", "i", "l", "i", "t", "i", "e", "s">>)),
                  BalanceSheet(FALSE, Some(80), Some(20)),
                  CashFlow(FALSE, Some(60), Some(-20), Missing))
    ELSE IF ticker = XYZ
    THEN Response(FALSE, Info(Some(0), Missing, Missing, Missing),
                  BalanceSheet(FALSE, Missing, Missing),
                  CashFlow(FALSE, Missing, Missing, Some(10)))
    ELSE Response(FALSE, Info(Missing, Missing, Missing, Missing),
                  BalanceSheet(TRUE, Missing, Missing),
                  CashFlow(TRUE, Missing, Missing, Missing))

\* a fetch gets the listing, an exception (the network), or the listing
\* with empty financial statements
Responses(ticker) ==
    LET l == Listing(ticker)
    IN  {l, Response(TRUE, l.info, l.bs, l.cf),
         Response(FALSE, l.info, BalanceSheet(TRUE, Missing, Missing), l.cf)}

----------------------------------------------------------------------------
(* calculate_dcf, src/app.py:117-135                                       *)

\* the projection horizon: range(1, 6)
Horizon == 5

\* lines 120-125: the loop that compounds current_fcf and appends it
RECURSIVE project_fcf_from(_, _, _)
project_fcf_from(current_fcf, growth_rate, years) ==
    IF years = 0 THEN <<>>
    ELSE LET next_fcf == RMul(current_fcf, RAdd(R(1), growth_rate))
         IN  <<next_fcf>> \o project_fcf_from(next_fcf, growth_rate, years - 1)

\* a projection that starts at the base year instead of year 1
project_fcf_with_base(fcf, growth_rate) ==
    <<fcf>> \o project_fcf_from(fcf, growth_rate, Horizon - 1)

project_fcf(fcf, growth_rate) == project_fcf_from(fcf, growth_rate, Horizon)

\* line 127, for wacc # terminal_growth
terminal_value(last_fcf, wacc, terminal_growth) ==
    RDiv(RMul(last_fcf, RAdd(R(1), terminal_growth)), RSub(wacc, terminal_growth))

\* line 129
discount_factors(wacc) == [i \in 1..Horizon |-> RPow(RAdd(R(1), wacc), i)]

\* present values with each year multiplied by its factor, not divided
pv_of_compounded(future_fcf, factors) ==
    RSum([i \in 1..Len(future_fcf) |-> RMul(future_fcf[i], factors[i])])

\* line 130, for factors that are all non-zero
pv_of(future_fcf, factors) ==
    RSum([i \in 1..Len(future_fcf) |-> RDiv(future_fcf[i], factors[i])])

\* a division of lines 127-132 has a zero divisor
DcfDividesByZero(wacc, terminal_growth) ==
    \/ RSub(wacc, terminal_growth) = R(0)
    \/ RAdd(R(1), wacc) = R(0)

NoValue == <<0, 1>>

DcfResult(kind, value, future_fcf, pv_fcf, pv_terminal) ==
    [kind |-> kind, value |-> value, future_fcf |-> future_fcf,
     pv_fcf |-> pv_fcf, pv_terminal |-> pv_terminal]

\* kind "returned": the function returned `value`;
\* kind "ZeroDivisionError": it raised, and returned nothing.
calculate_dcf(fcf, growth_rate, wacc, terminal_growth, shares, net_debt) ==
    IF shares = R(0) THEN DcfResult("returned", R(0), <<>>, NoValue, NoValue)
    ELSE
    LET future_fcf == project_fcf(fcf, growth_rate)
    IN  IF DcfDividesByZero(wacc, terminal_growth)
        THEN DcfResult("ZeroDivisionError", NoValue, future_fcf, NoValue, NoValue)
        ELSE
        LET tv == terminal_value(future_fcf[Len(future_fcf)], wacc, terminal_growth)
            factors == discount_factors(wacc)
            pv_fcf == pv_of(future_fcf, factors)
            pv_terminal == RDiv(tv, RPow(RAdd(R(1), wacc), 5))
            equity_value == RSub(RAdd(pv_fcf, pv_terminal), net_debt)
        IN  DcfResult("returned", RDiv(equity_value, shares),
                      future_fcf, pv_fcf, pv_terminal)

----------------------------------------------------------------------------
(* The output block of the page, src/app.py:209-244                        *)

\* round a rational x >= 0 to the nearest integer, ties to even
RoundHalfEven(x) ==
    LET q == x[1] \div x[2]
        r == x[1] % x[2]
    IN  IF 2 * r < x[2] THEN q
        ELSE IF 2 * r > x[2] THEN q + 1
        ELSE IF q % 2 = 0 THEN q ELSE q + 1

\* the text of a fixed-point format ({:.2f}, {:+.1f}): the sign and the
\* digits, as the integer value * 10^digits rounded.  (Rationals that are
\* exact decimal ties round to even here; a double next to such a tie rounds
\* by its binary value.)
FormatFixed(x, digits) ==
    LET pow == IF digits = 1 THEN 10 ELSE 100
    IN  [negative |-> RLt(x, R(0)),
         scaled |-> RoundHalfEven(RMul(<<Abs(x[1]), x[2]>>, R(pow))),
         digits |-> digits]

\* line 213
safe_price_of(price) == IF RLt(R(0), price) THEN price ELSE R(1)

\* lines 215-217
fmt_upside(target, safe_price) ==
    LET pct == RMul(RDiv(RSub(target, safe_price), safe_price), R(100))
    IN  FormatFixed(pct, 1)

\* lines 219-221: st.metric(label, f"${p:.2f}", fmt_upside(p))
metric(target, safe_price) ==
    [value |-> FormatFixed(target, 2), delta |-> fmt_upside(target, safe_price)]

\* the ratio assigned when there is no modelled downside, line 229
NoDownsideRatio == 100

\* a classification with the upper threshold taken inclusively
classify_inclusive(ratio) ==
    IF RLe(R(3), ratio) THEN "Strong Opportunity"
    ELSE IF RLt(<<3, 2>>, ratio) THEN "Moderate Opportunity"
    ELSE "Unattractive Entry"

\* lines 239-244
classify(ratio) ==
    IF RLt(R(3), ratio) THEN "Strong Opportunity"
    ELSE IF RLt(<<3, 2>>, ratio) THEN "Moderate Opportunity"
    ELSE "Unattractive Entry"

RiskRewardResult(upside, downside, divided, ratio, rr_text) ==
    [upside |-> upside, downside |-> downside, divided |-> divided,
     ratio |-> ratio, rr_text |-> rr_text, label |-> classify(ratio)]

\* lines 225-233 with the downside subtracted the wrong way round
risk_reward_reversed(bear_p, bull_p, safe_price) ==
    LET upside == RSub(bull_p, safe_price)
        downside == RSub(bear_p, safe_price)
    IN  IF RLe(downside, R(0))
        THEN RiskRewardResult(upside, downside, FALSE, R(NoDownsideRatio),
                              [text |-> "Infinite (No modeled downside)"])
        ELSE LET ratio == RDiv(upside, downside)
             IN  RiskRewardResult(upside, downside, TRUE, ratio,
                                  [text |-> "{ratio:.2f} : 1",
                                   ratio |-> FormatFixed(ratio, 2)])

\* lines 225-244; `divided` records that line 232 ran
risk_reward(bear_p, bull_p, safe_price) ==
    LET upside == RSub(bull_p, safe_price)
        downside == RSub(safe_price, bear_p)
    IN  IF RLe(downside, R(0))
        THEN RiskRewardResult(upside, downside, FALSE, R(NoDownsideRatio),
                              [text |-> "Infinite (No modeled downside)"])
        ELSE LET ratio == RDiv(upside, downside)
             IN  RiskRewardResult(upside, downside, TRUE, ratio,
                                  [text |-> "{ratio:.2f} : 1",
                                   ratio |-> FormatFixed(ratio, 2)])

\* lines 209-244
render_output(bear_p, base_p, bull_p, price) ==
    LET safe_price == safe_price_of(price)
    IN  [safe_price |-> safe_price,
         bear_target |-> metric(bear_p, safe_price),
         base_target |-> metric(base_p, safe_price),
         bull_target |-> metric(bull_p, safe_price),
         rr |-> risk_reward(bear_p, bull_p, safe_price)]

----------------------------------------------------------------------------
(* The page script, src/app.py:138-244, run top to bottom on every user    *)
(* interaction.                                                            *)

\* st.slider("Terminal Growth Rate %", 1.0, 5.0, 2.5), line 201
SliderMin == 100
SliderMax == 500
SliderDefault == 250

WidgetKeys == {"bear_g", "bear_w", "base_g", "base_w", "bull_g", "bull_w"}

\* a percentage in hundredths of a percent, divided by 100 (lines 185-201)
Fraction(hundredths) == Norm(hundredths, 10000)

\* lines 205-207 raise ZeroDivisionError: calculate_dcf returns 0 for
\* shares == 0 and otherwise divides by wacc - terminal_growth and by
\* powers of 1 + wacc
ScenariosRaise(w, term_g, shares) ==
    /\ shares # 0
    /\ \E k \in {"bear_w", "base_w", "bull_w"} :
         DcfDividesByZero(Fraction(w[k]), Fraction(term_g))

\* lines 151-207 for a session that holds 'data'.  The three targets and
\* the output block are calculate_dcf and render_output of the inputs
\* recorded here; `outcome` tells whether the script reached them.  (Their
\* exact values for the sector presets, such as 1.11^5, lie outside TLC's
\* integers; SpecDcf and SpecOut compute them on smaller inputs.)
RenderValuation(ticker, sess, w, term_g, fcf_val, alert) ==
    [kind |-> "valuation",
     alert |-> alert,
     header |-> [name |-> sess.data.name, ticker |-> ticker,
                 sector |-> sess.data.sector, price |-> sess.data.price],
     balance_sheet |-> IF sess.data.net_debt < 0 THEN "Cash Rich" ELSE "Net Debt",
     scenarios |-> w,
     term_g |-> term_g,
     fcf_val |-> fcf_val,
     shares |-> sess.data.shares_out,
     net_debt |-> sess.data.net_debt,
     outcome |-> IF ScenariosRaise(w, term_g, sess.data.shares_out)
                 THEN "ZeroDivisionError" ELSE "rendered"]

\* One run of the script: raw is the ticker text, clicked whether "Analyze
\* Stock" was pressed, resp the provider's response if it was; w, sl and fi
\* are the widget values the browser sends (None, Missing: never rendered).
RunScript(raw, clicked, resp, w, sl, fi) ==
    LET ticker == Upper(raw)
        fetch == IF clicked THEN get_company_data(ticker, resp)
                 ELSE [data |-> None, alert |-> None]
        stored == clicked /\ fetch.data # None
        sess == IF stored
                THEN [data |-> fetch.data,
                      defaults |-> get_industry_defaults(fetch.data.sector)]
                ELSE session
        defaults == IF sess.defaults = None THEN get_industry_defaults(None)
                    ELSE sess.defaults
        w1 == IF w = None THEN defaults
              ELSE [k \in WidgetKeys |->
                      IF value_in_identity /\ defaults[k] # session.defaults[k]
                      THEN defaults[k] ELSE w[k]]
        sl1 == IF sl = Missing THEN SliderDefault ELSE sl[1]
        fi1 == IF fi = Missing \/ sess.data.fcf # session.data.fcf
               THEN sess.data.fcf ELSE fi[1]
    IN  /\ ticker_input' = raw
        /\ session' = sess
        /\ fetched_ticker' = IF stored THEN Some(ticker) ELSE fetched_ticker
        /\ UNCHANGED value_in_identity
        /\ IF sess.data = None
           THEN /\ page' = [kind |-> "blank", alert |-> fetch.alert]
                /\ widgets' = w
                /\ term_slider' = sl
                /\ fcf_input' = fi
           ELSE /\ page' = RenderValuation(ticker, sess, w1, sl1, fi1, fetch.alert)
                /\ widgets' = w1
                /\ term_slider' = Some(sl1)
                /\ fcf_input' = Some(fi1)
        /\ UNCHANGED <<dcfVars, outVars>>

----------------------------------------------------------------------------
(* The variables of the specifications that are not running              *)

DcfIdle == dcf_args = NoCall /\ dcf_out = NoCall

OutIdle == out_args = NoCall /\ out_page = NoCall

UiIdle ==
    /\ ticker_input = <<>>
    /\ session = NoCall
    /\ widgets = NoCall
    /\ term_slider = Missing
    /\ fcf_input = Missing
    /\ page = NoCall
    /\ fetched_ticker = Missing
    /\ value_in_identity = FALSE

----------------------------------------------------------------------------
(* Spec: the user's interactions with the page                             *)

MaxEdits == 1

TickerTexts == {NVDA, <<"d", "u", "k">>, <<"x", "y", "z">>, <<"Z", "Z", "Z", "Z">>}
\* the scenario inputs the user edits, and the values typed into them
EditedKeys == {"bear_w", "base_g", "bull_w"}
NumberEdits == {200 * k : k \in 1..MaxEdits}
SliderStops == {SliderMin, SliderDefault, SliderMax}
FcfEdits == {-100 * k : k \in 1..MaxEdits}

\* the state after the first run of the script: st.text_input's default
\* "NVDA", an empty session state, nothing rendered but the sidebar
Init ==
    /\ ticker_input = NVDA
    /\ session = [data |-> None, defaults |-> None]
    /\ widgets = None
    /\ term_slider = Missing
    /\ fcf_input = Missing
    /\ page = [kind |-> "blank", alert |-> None]
    /\ fetched_ticker = Missing
    /\ value_in_identity \in BOOLEAN
    /\ DcfIdle
    /\ OutIdle

\* the user types another ticker (line 142)
EditTicker ==
    \E raw \in TickerTexts \ {ticker_input} :
        RunScript(raw, FALSE, None, widgets, term_slider, fcf_input)

\* the user presses "Analyze Stock" (lines 143-149)
AnalyzeStock ==
    \E resp \in Responses(Upper(ticker_input)) :
        RunScript(ticker_input, TRUE, resp, widgets, term_slider, fcf_input)

\* the user changes one of the six scenario inputs (lines 185-196)
EditNumber ==
    /\ widgets # None
    /\ \E k \in EditedKeys, v \in NumberEdits :
        /\ v # widgets[k]
        /\ RunScript(ticker_input, FALSE, None, [widgets EXCEPT ![k] = v],
                     term_slider, fcf_input)

\* the user moves the terminal growth slider (line 201)
MoveSlider ==
    /\ term_slider # Missing
    /\ \E v \in SliderStops \ {term_slider[1]} :
        RunScript(ticker_input, FALSE, None, widgets, Some(v), fcf_input)

\* the user changes the free cash flow input (line 202)
EditFcf ==
    /\ fcf_input # Missing
    /\ \E v \in FcfEdits \ {fcf_input[1]} :
        RunScript(ticker_input, FALSE, None, widgets, term_slider, Some(v))

\* a rerun with nothing changed
Rerun ==
    /\ page.kind \in {"blank", "valuation"}
    /\ RunScript(ticker_input, FALSE, None, widgets, term_slider, fcf_input)

Next ==
    \/ EditTicker
    \/ AnalyzeStock
    \/ EditNumber
    \/ MoveSlider
    \/ EditFcf
    \/ Rerun

Spec == Init /\ [][Next]_vars

----------------------------------------------------------------------------
(* SpecDcf: calculate_dcf on bounded inputs                                *)

MaxShares == 2
MaxCash == 2

FcfInputs == {R(-100), R(0), R(100)}
GrowthInputs == {R(-2), R(-1), <<-1, 2>>, R(0), <<1, 2>>, R(1)}
WaccInputs == {R(0), <<1, 2>>, R(1), R(2)}
TerminalInputs == {R(0), <<1, 2>>, R(1)}
ShareInputs == {R(s) : s \in 0..MaxShares}
NetDebtInputs == {R(25 * k) : k \in (-MaxCash)..MaxCash}

DcfArgs ==
    [fcf : FcfInputs, growth_rate : GrowthInputs, wacc : WaccInputs,
     terminal_growth : TerminalInputs, shares : ShareInputs,
     net_debt : NetDebtInputs]

InitDcf ==
    /\ dcf_args \in DcfArgs
    /\ dcf_out = NoCall
    /\ OutIdle
    /\ UiIdle

\* the call calculate_dcf(fcf, growth_rate, wacc, terminal_growth, shares, net_debt)
CallDcf ==
    /\ dcf_out = NoCall
    /\ dcf_out' = calculate_dcf(dcf_args.fcf, dcf_args.growth_rate, dcf_args.wacc,
                                dcf_args.terminal_growth, dcf_args.shares,
                                dcf_args.net_debt)
    /\ UNCHANGED <<dcf_args, outVars, uiVars>>

NextDcf == CallDcf

SpecDcf == InitDcf /\ [][NextDcf]_vars

----------------------------------------------------------------------------
(* SpecOut: the output block on bounded scenario values and prices         *)

MaxBaseSteps == 1

BearInputs == {R(v) : v \in {-50, 0, 50, 99, 100, 110, 150}}
BaseInputs == {R(200 + 50 * k) : k \in 0..MaxBaseSteps}
BullInputs == {R(v) : v \in {50, 175, 200, 250, 400}}
PriceInputs == {R(v) : v \in {0, 1, 100}}

OutArgs ==
    [bear_p : BearInputs, base_p : BaseInputs, bull_p : BullInputs,
     price : PriceInputs]

InitOut ==
    /\ out_args \in OutArgs
    /\ out_page = NoCall
    /\ DcfIdle
    /\ UiIdle

RenderOutput ==
    /\ out_page = NoCall
    /\ out_page' = render_output(out_args.bear_p, out_args.base_p,
                                 out_args.bull_p, out_args.price)
    /\ UNCHANGED <<out_args, dcfVars, uiVars>>

NextOut == RenderOutput

SpecOut == InitOut /\ [][NextOut]_vars

----------------------------------------------------------------------------
(* Claims about calculate_dcf, checked under SpecDcf                       *)

DcfCalled == dcf_out # NoCall

\* the inputs the specification calls valid: shares > 0 and wacc > terminal_growth
DcfValid ==
    /\ RLt(R(0), dcf_args.shares)
    /\ RLt(dcf_args.terminal_growth, dcf_args.wacc)

DcfWith(growth_rate, wacc) ==
    calculate_dcf(dcf_args.fcf, growth_rate, wacc, dcf_args.terminal_growth,
                  dcf_args.shares, dcf_args.net_debt)

\* C1 (as claimed): a call with shares == 0 signals InvalidShareCount and
\* never returns a value.
C1_ZeroSharesSignalled ==
    (DcfCalled /\ dcf_args.shares = R(0)) => dcf_out.kind = "InvalidShareCount"

\* C2 (as claimed): a call whose wacc is less than or equal to the terminal
\* growth rate is rejected with DegenerateTerminalValue and returns no value.
\* (Stated for shares # 0, so that a violation is not the early return of C1.)
C2_DegenerateRejected ==
    (DcfCalled /\ dcf_args.shares # R(0)
        /\ RLe(dcf_args.wacc, dcf_args.terminal_growth))
    => dcf_out.kind = "DegenerateTerminalValue"

\* value is monotone around the call's own growth rate and wacc: no smaller
\* for any larger growth rate, no larger for any larger (still valid) wacc
DcfMonotoneHere ==
    /\ \A g2 \in GrowthInputs :
         RLe(dcf_args.growth_rate, g2)
         => RLe(dcf_out.value, DcfWith(g2, dcf_args.wacc).value)
    /\ \A w2 \in WaccInputs :
         RLe(dcf_args.wacc, w2)
         => RLe(DcfWith(dcf_args.growth_rate, w2).value, dcf_out.value)

\* C5 (as claimed): for all valid inputs, free cash flow of any sign, the
\* per-share value is increasing in growth_rate and decreasing in wacc.
C5_MonotoneAnySign == (DcfCalled /\ DcfValid) => DcfMonotoneHere

\* C5 (amended): for valid inputs with free cash flow >= 0, growth_rate >= -1
\* and terminal_growth >= -1, the per-share value is non-decreasing in
\* growth_rate and non-increasing in wacc.
C5_MonotoneNonNegativeFcf ==
    (DcfCalled /\ DcfValid
        /\ RLe(R(0), dcf_args.fcf)
        /\ RLe(R(-1), dcf_args.growth_rate)
        /\ RLe(R(-1), dcf_args.terminal_growth))
    => DcfMonotoneHere

\* C5 witness: a valid call with positive free cash flow whose value rises
\* strictly with a larger growth rate and falls strictly with a larger wacc.
C5_Witness ==
    /\ DcfCalled /\ DcfValid
    /\ dcf_args.fcf = R(100) /\ dcf_args.growth_rate = R(0)
    /\ dcf_args.wacc = R(1)
    /\ RLt(dcf_out.value, DcfWith(R(1), dcf_args.wacc).value)
    /\ RLt(DcfWith(dcf_args.growth_rate, R(2)).value, dcf_out.value)

\* the specification's closed forms
ClosedFcf(t) ==
    RMul(dcf_args.fcf, RPow(RAdd(R(1), dcf_args.growth_rate), t))

ClosedPv(t) == RDiv(ClosedFcf(t), RPow(RAdd(R(1), dcf_args.wacc), t))

ClosedPvFcf ==
    RAdd(ClosedPv(1), RAdd(ClosedPv(2), RAdd(ClosedPv(3),
         RAdd(ClosedPv(4), ClosedPv(5)))))

ClosedPvTerminal ==
    RDiv(RDiv(RMul(ClosedFcf(5), RAdd(R(1), dcf_args.terminal_growth)),
              RSub(dcf_args.wacc, dcf_args.terminal_growth)),
         RPow(RAdd(R(1), dcf_args.wacc), 5))

\* C6: for valid inputs calculate_dcf returns (pv_fcf + pv_terminal - net_debt)
\* / shares with fcf[t] = fcf * (1+g)^t for t = 1..5 (the base year is not
\* included; with g = 0 every year equals the base FCF), year t discounted by
\* t periods and the terminal value by 5.
C6_ClosedForm ==
    (DcfCalled /\ DcfValid) =>
        /\ dcf_out.kind = "returned"
        /\ Len(dcf_out.future_fcf) = 5
        /\ \A t \in 1..5 : dcf_out.future_fcf[t] = ClosedFcf(t)
        /\ dcf_args.growth_rate = R(0)
           => \A t \in 1..5 : dcf_out.future_fcf[t] = dcf_args.fcf
        /\ dcf_out.pv_fcf = ClosedPvFcf
        /\ dcf_out.pv_terminal = ClosedPvTerminal
        /\ dcf_out.value =
             RDiv(RSub(RAdd(ClosedPvFcf, ClosedPvTerminal), dcf_args.net_debt),
                  dcf_args.shares)

\* C6 witness: fcf = 100, g = 1/2, wacc = 1, terminal growth = 1/2, shares = 2,
\* net debt = 25 returns 275/2, with a year-1 projection of 150.
C6_Witness ==
    /\ DcfCalled
    /\ dcf_args = [fcf |-> R(100), growth_rate |-> <<1, 2>>, wacc |-> R(1),
                   terminal_growth |-> <<1, 2>>, shares |-> R(2),
                   net_debt |-> R(25)]
    /\ dcf_out.kind = "returned"
    /\ dcf_out.future_fcf[1] = R(150)
    /\ dcf_out.value = <<275, 2>>

----------------------------------------------------------------------------
(* Claims about the output block, checked under SpecOut                    *)

OutRendered == out_page # NoCall

\* the ratios the division branch produces over the bounded inputs
DivisionRatios ==
    {risk_reward(a.bear_p, a.bull_p, safe_price_of(a.price)).ratio :
        a \in {b \in OutArgs :
                 risk_reward(b.bear_p, b.bull_p, safe_price_of(b.price)).divided}}

\* C3 (as claimed): whenever downside <= 0 no division is performed and the
\* ratio is the no-downside sentinel, a value distinct from every ratio the
\* division branch can produce.
C3_SentinelDistinct ==
    (OutRendered /\ RLe(out_page.rr.downside, R(0))) =>
        /\ ~out_page.rr.divided
        /\ out_page.rr.ratio = R(NoDownsideRatio)
        /\ out_page.rr.ratio \notin DivisionRatios

\* C4: the label is "strong" iff ratio > 3, "moderate" iff 1.5 < ratio <= 3,
\* "unattractive" iff ratio <= 1.5, and exactly one of the three is produced.
C4_Classification ==
    OutRendered =>
        LET ratio == out_page.rr.ratio
            label == out_page.rr.label
        IN  /\ label \in {"Strong Opportunity", "Moderate Opportunity",
                          "Unattractive Entry"}
            /\ label = "Strong Opportunity" <=> RLt(R(3), ratio)
            /\ label = "Moderate Opportunity"
                 <=> (RLt(<<3, 2>>, ratio) /\ RLe(ratio, R(3)))
            /\ label = "Unattractive Entry" <=> RLe(ratio, <<3, 2>>)

\* C4 witness: a ratio of exactly 3, computed by division, labelled moderate.
C4_Witness ==
    /\ OutRendered
    /\ out_page.rr.divided
    /\ out_page.rr.ratio = R(3)
    /\ out_page.rr.label = "Moderate Opportunity"

C7_Scenario ==
    /\ OutRendered
    /\ out_args = [bear_p |-> R(150), base_p |-> R(200), bull_p |-> R(400),
                   price |-> R(100)]

\* C7 (as claimed): bull 400, base 200, bear 150, price 100 yields upside 300,
\* downside 50, ratio 6.0 computed by division, label "strong opportunity".
C7_RatioSix ==
    C7_Scenario =>
        /\ out_page.rr.upside = R(300)
        /\ out_page.rr.downside = R(50)
        /\ out_page.rr.divided
        /\ out_page.rr.ratio = R(6)
        /\ out_page.rr.label = "Strong Opportunity"

\* C7 (amended): bull 400, base 200, bear 150, price 100 yields upside 300,
\* downside -50, no division, the no-downside ratio 100 with its "Infinite"
\* text, and the label "strong opportunity".
C7_NoDownside ==
    C7_Scenario =>
        /\ out_page.rr.upside = R(300)
        /\ out_page.rr.downside = R(-50)
        /\ ~out_page.rr.divided
        /\ out_page.rr.ratio = R(NoDownsideRatio)
        /\ out_page.rr.rr_text = [text |-> "Infinite (No modeled downside)"]
        /\ out_page.rr.label = "Strong Opportunity"

\* C7 witness: the scenario has been rendered, with an upside of 300.
C7_Witness == C7_Scenario /\ out_page.rr.upside = R(300)

\* C8 (as claimed): upside, downside, the percentage deltas and the ratio are
\* never computed from a stand-in for the record's price: the price used is
\* the record's own.
C8_NoStandInPrice ==
    OutRendered => out_page.safe_price = out_args.price

----------------------------------------------------------------------------
(* Claims about the session, checked under Spec                            *)

WaccKeys == {"bear_w", "base_w", "bull_w"}

\* the scenario inputs are the session's sector presets, as first rendered
UntouchedDefaults == \A k \in WidgetKeys : widgets[k] = session.defaults[k]

\* C9 (as claimed): the presets of every sector are ordered (bear_g <= base_g
\* <= bull_g, bear_w >= base_w >= bull_w) and every preset WACC is strictly
\* greater than every value of the terminal growth slider, so that the three
\* valuations on untouched sector defaults never meet wacc <= terminal growth.
C9_UntouchedDefaultsValid ==
    (page.kind = "valuation" /\ UntouchedDefaults) =>
        LET d == session.defaults
        IN  /\ d.bear_g <= d.base_g /\ d.base_g <= d.bull_g
            /\ d.bear_w >= d.base_w /\ d.base_w >= d.bull_w
            /\ \A k \in WaccKeys : page.scenarios[k] > page.term_g
            /\ page.outcome = "rendered"

\* C10 (as claimed): whenever the page renders a valuation, the ticker in the
\* header is the ticker whose successful fetch produced the record in the
\* session, and the session's defaults are the presets of that record's
\* sector.
C10_HeaderMatchesRecord ==
    page.kind = "valuation" =>
        /\ Some(page.header.ticker) = fetched_ticker
        /\ session.defaults = get_industry_defaults(session.data.sector)

====
